---- MODULE Spec2Model ----
(***************************************************************************)
(* Model of the data-preprocessing workshop notebooks: the return_mileage  *)
(* helper of the feature-engineering notebook, the binary encodings of the *)
(* hiking frame and the aggregate-statistics cells on running_times_5k.    *)
(*                                                                         *)
(* Python values are records [t, s, n, d]: t is the Python type, s the     *)
(* text of a str, n/d the value of a number (d = 1 for an int; a float is  *)
(* the decimal fraction n/d with d the least power of ten, which is exact  *)
(* for the short decimal texts the model handles).                         *)
(***************************************************************************)
EXTENDS Integers, Sequences, FiniteSets, TLC

VARIABLES length, result, hiking, le, running_times_5k, pc

\* the one-hot encoding cells
VARIABLES color_ex, color_enc

\* the feature-selection notebook
VARIABLES volunteer, volunteer_subset, wine, wine_X, pca, transformed_X, y

\* the scaling cells of the standardization notebook
VARIABLES scale_df, scaler, df_scaled

engineering_vars == <<length, result, hiking, le, running_times_5k>>

dummies_vars == <<color_ex, color_enc>>

selection_vars ==
    <<volunteer, volunteer_subset, wine, wine_X, pca, transformed_X, y>>

scaling_vars == <<scale_df, scaler, df_scaled>>

vars == <<engineering_vars, dummies_vars, selection_vars, scaling_vars, pc>>

(* ---------------------------- bounds ----------------------------------- *)

\* longest enumerated Length text
MaxLen == 7

\* most rows of an enumerated hiking frame
MaxRows == 3

\* most runners of an enumerated running_times_5k frame
MaxRunners == 1

\* longest enumerated run time, in tenths of a minute
MaxTime == 2

\* most rows of an enumerated wine frame
MaxWineRows == 14

\* most rows of an enumerated scale_df frame
MaxScaleRows == 2

\* largest value in an enumerated scale_df frame
MaxScaleValue == 2

(* ------------------------- Python values -------------------------------- *)

PyStr(s) == [t |-> "str", s |-> s, n |-> 0, d |-> 1]

PyInt(k) == [t |-> "int", s |-> <<>>, n |-> k, d |-> 1]

PyFloat(num, den) == [t |-> "float", s |-> <<>>, n |-> num, d |-> den]

\* the float nan pandas stores for a missing value
PyNaN == [t |-> "nan", s |-> <<>>, n |-> 0, d |-> 1]

PyNone == [t |-> "NoneType", s |-> <<>>, n |-> 0, d |-> 1]

\* isinstance(v, str)
IsInstanceStr(v) == v.t = "str"

(* --------------------- texts and the pattern ---------------------------- *)

Digits == {"0", "1", "2", "3", "4", "5", "6", "7", "8", "9"}

DigitVal(c) ==
    CASE c = "0" -> 0 [] c = "1" -> 1 [] c = "2" -> 2 [] c = "3" -> 3
      [] c = "4" -> 4 [] c = "5" -> 5 [] c = "6" -> 6 [] c = "7" -> 7
      [] c = "8" -> 8 [] c = "9" -> 9

\* characters of the enumerated texts: two digits, the point, a letter
Alphabet == {"0", "5", ".", "m"}

\* the Length texts the notebook prints, and the temperature example
ExampleTexts ==
    { <<"0", ".", "8", " ", "m", "i", "l", "e", "s">>,
      <<"1", ".", "0", " ", "m", "i", "l", "e">>,
      <<"0", ".", "7", "5", " ", "m", "i", "l", "e", "s">>,
      <<"0", ".", "5", " ", "m", "i", "l", "e", "s">>,
      <<"t", "e", "m", "p", ":", "4", "5", ".", "6", " ", "F">> }

Texts == (UNION {[1..k -> Alphabet] : k \in 0..MaxLen}) \cup ExampleTexts

\* what a cell of the Length column can hold: a text, or a missing value,
\* a number, None
NonStrings == {PyNaN, PyNone, PyInt(0), PyInt(3), PyFloat(5, 10)}

LengthValues == {PyStr(s) : s \in Texts} \cup NonStrings

\* \d+ from position i: the last position of the longest run of digits that
\* starts at i (i - 1 when s[i] is not a digit)
RECURSIVE DigitsEnd(_, _)
DigitsEnd(s, i) ==
    IF i <= Len(s) /\ s[i] \in Digits THEN DigitsEnd(s, i + 1) ELSE i - 1

\* the pattern \d+\.\d+ tried at position i: the end of the match, 0 if none.
\* The first \d+ takes the whole run of digits; giving digits back never
\* helps, as the character after a shorter prefix is a digit, not the point.
MatchAt(s, i) ==
    LET e1 == DigitsEnd(s, i)
    IN  IF e1 >= i /\ e1 + 1 <= Len(s) /\ s[e1 + 1] = "."
        THEN LET e2 == DigitsEnd(s, e1 + 2)
             IN  IF e2 >= e1 + 2 THEN e2 ELSE 0
        ELSE 0

\* re.findall: scan left to right, take the match at the first position
\* that has one, resume after its end; the matches never overlap
RECURSIVE FindallFrom(_, _)
FindallFrom(s, i) ==
    IF i > Len(s) THEN <<>>
    ELSE LET j == MatchAt(s, i)
         IN  IF j > 0 THEN <<SubSeq(s, i, j)>> \o FindallFrom(s, j + 1)
             ELSE FindallFrom(s, i + 1)

Findall(s) == FindallFrom(s, 1)

(* ------------------------------ float() --------------------------------- *)

RECURSIVE Pow10(_)
Pow10(k) == IF k = 0 THEN 1 ELSE 10 * Pow10(k - 1)

\* the number a run of digits denotes
RECURSIVE DigitsValue(_)
DigitsValue(ds) ==
    IF ds = <<>> THEN 0
    ELSE 10 * DigitsValue(SubSeq(ds, 1, Len(ds) - 1)) + DigitVal(ds[Len(ds)])

RECURSIVE StripTrailingZeros(_)
StripTrailingZeros(ds) ==
    IF ds # <<>> /\ ds[Len(ds)] = "0"
    THEN StripTrailingZeros(SubSeq(ds, 1, Len(ds) - 1))
    ELSE ds

PointAt(m) == CHOOSE k \in 1..Len(m) : m[k] = "."

\* float(m) for a text m of the shape digits.digits
Float(m) ==
    LET k    == PointAt(m)
        ip   == SubSeq(m, 1, k - 1)
        fp   == StripTrailingZeros(SubSeq(m, k + 1, Len(m)))
    IN  PyFloat(DigitsValue(ip) * Pow10(Len(fp)) + DigitsValue(fp),
                Pow10(Len(fp)))

(* ------------------------------ frames ---------------------------------- *)

\* a DataFrame: the column labels in order, and for each label the dtype and
\* the values of the column, one per row
Column(dtype, values) == [dtype |-> dtype, values |-> values]

DataFrame(columns, data) == [columns |-> columns, data |-> data]

\* the state of a name that no cell has assigned yet
Unassigned == DataFrame(<<>>, <<>>)

\* no cell of the one-hot section, of the feature-selection notebook, of
\* the scaling section has been executed
DummiesUnassigned == color_ex = Unassigned /\ color_enc = Unassigned

SelectionUnassigned ==
    /\ volunteer = Unassigned
    /\ volunteer_subset = Unassigned
    /\ wine = Unassigned
    /\ wine_X = Unassigned
    /\ pca = Unassigned
    /\ transformed_X = Unassigned
    /\ y = Unassigned

ScalingUnassigned ==
    scale_df = Unassigned /\ scaler = Unassigned /\ df_scaled = Unassigned

NRows(df) == Len(df.data[df.columns[1]].values)

\* df[label] = column: a new label is appended after the last column, an
\* existing label keeps its place and gets the new values
SetColumn(df, label, column) ==
    DataFrame(IF \E k \in 1..Len(df.columns) : df.columns[k] = label
              THEN df.columns
              ELSE Append(df.columns, label),
              [c \in (DOMAIN df.data) \cup {label} |->
                  IF c = label THEN column ELSE df.data[c]])

(* --------------------------- return_mileage ----------------------------- *)

\* re.findall(pattern, v): a TypeError unless v is a str
ReFindall(v) ==
    IF IsInstanceStr(v)
    THEN [raised |-> FALSE, list |-> Findall(v.s)]
    ELSE [raised |-> TRUE, list |-> <<>>]

\* the outcome of a call: the value returned, whether it raised, and the
\* arguments re.findall was called with
Outcome(ret, raised, calls) ==
    [ret |-> ret, raised |-> raised, findall |-> calls]

\* the matched text is thrown away: a single match gives the fallback too
return_mileage_NoFloat(v) ==
    IF IsInstanceStr(v)
    THEN Outcome(PyInt(0), FALSE, <<v>>)
    ELSE Outcome(PyInt(0), FALSE, <<>>)

\* the isinstance guard is missing: findall is applied to every input
return_mileage_NoGuard(v) ==
    LET f == ReFindall(v)
    IN  IF f.raised THEN Outcome(PyNone, TRUE, <<v>>)
        ELSE IF Len(f.list) = 1
             THEN Outcome(Float(f.list[1]), FALSE, <<v>>)
             ELSE Outcome(PyInt(0), FALSE, <<v>>)

\* def return_mileage(length): a str with exactly one match gives the float
\* of the match; a str with any other number of matches falls off the end of
\* the function, which returns None; the else of the isinstance test
\* returns 0
return_mileage(v) ==
    IF IsInstanceStr(v)
    THEN LET f == ReFindall(v)
         IN  IF f.raised THEN Outcome(PyNone, TRUE, <<v>>)
             ELSE IF Len(f.list) = 1
                  THEN Outcome(Float(f.list[1]), FALSE, <<v>>)
                  ELSE Outcome(PyNone, FALSE, <<v>>)
    ELSE Outcome(PyInt(0), FALSE, <<>>)

(* ------------------- specification: one call of the helper -------------- *)

InitMileage ==
    /\ DummiesUnassigned /\ SelectionUnassigned /\ ScalingUnassigned
    /\ length \in LengthValues
    /\ result = Outcome(PyNone, FALSE, <<>>)
    /\ hiking = Unassigned
    /\ le = <<>>
    /\ running_times_5k = Unassigned
    /\ pc = "call"

\* result = return_mileage(length)
CallReturnMileage ==
    /\ pc = "call"
    /\ result' = return_mileage(length)
    /\ pc' = "returned"
    /\ UNCHANGED <<length, hiking, le, running_times_5k>>
    /\ UNCHANGED <<dummies_vars, selection_vars, scaling_vars>>

NextMileage == CallReturnMileage

SpecMileage == InitMileage /\ [][NextMileage]_vars

(* ------------------------ claims on return_mileage ---------------------- *)

\* the texts of s that the pattern \d+\.\d+ matches as a whole, as pairs of
\* first and last position
IsDigitRun(s, a, b) == a <= b /\ \A k \in a..b : s[k] \in Digits

PatternSpans(s) ==
    {sp \in (1..Len(s)) \X (1..Len(s)) :
        \E k \in sp[1]..sp[2] :
            /\ s[k] = "."
            /\ IsDigitRun(s, sp[1], k - 1)
            /\ IsDigitRun(s, k + 1, sp[2])}

NoMatch(s) == PatternSpans(s) = {}

\* the leftmost span, and of the spans starting there the longest
FirstSpan(s) ==
    CHOOSE sp \in PatternSpans(s) :
        \A o \in PatternSpans(s) :
            sp[1] < o[1] \/ (sp[1] = o[1] /\ sp[2] >= o[2])

\* C1: every str input in which the pattern has no match gives the
\* fallback value 0, the value a non-text input gives
C1_UnmatchedStringReturnsZero ==
    (pc = "returned" /\ IsInstanceStr(length) /\ NoMatch(length.s))
        => result.ret = PyInt(0)

\* C2: a str input for which findall yields exactly one match gives that
\* match converted to a float; '0.75 miles' gives 0.75 and '1.0 mile' 1.0
C2_SingleMatchReturnsFloat ==
    (pc = "returned" /\ IsInstanceStr(length)
                     /\ Len(Findall(length.s)) = 1)
        => /\ result.ret = Float(SubSeq(length.s, FirstSpan(length.s)[1],
                                                  FirstSpan(length.s)[2]))
           /\ result.ret.t = "float"
           /\ ~result.raised
           /\ (length.s = <<"0", ".", "7", "5", " ", "m", "i", "l", "e", "s">>
                 => result.ret = PyFloat(75, 100))
           /\ (length.s = <<"1", ".", "0", " ", "m", "i", "l", "e">>
                 => result.ret = PyFloat(1, 1))
           /\ (length.s = <<"0", "5", ".", "5", "0">>
                 => result.ret = PyFloat(55, 10))

C2_Witness ==
    /\ pc = "returned"
    /\ length = PyStr(<<"0", ".", "7", "5", " ", "m", "i", "l", "e", "s">>)
    /\ result.ret = PyFloat(75, 100)

\* C3: every str input in which the pattern has at least one match gives a
\* mileage taken from the matches
C3_AnyMatchReturnsMileage ==
    (pc = "returned" /\ IsInstanceStr(length) /\ ~NoMatch(length.s))
        => /\ result.ret.t = "float"
           /\ \E sp \in PatternSpans(length.s) :
                  result.ret = Float(SubSeq(length.s, sp[1], sp[2]))

\* C4: every input that is not a str gives 0, the call does not raise, and
\* re.findall is never called on a value that is not a str
C4_NonStringReturnsZero ==
    /\ \A k \in 1..Len(result.findall) : IsInstanceStr(result.findall[k])
    /\ (pc = "returned" /\ ~IsInstanceStr(length))
          => /\ result.ret = PyInt(0)
             /\ ~result.raised
             /\ result.findall = <<>>

C4_Witness ==
    /\ pc = "returned"
    /\ length = PyNaN
    /\ result.ret = PyInt(0)

(* --------------------- binary encoding of Accessible -------------------- *)

\* the code point of the characters an Accessible text or a colour is
\* written with
CodePoint(c) ==
    CASE c = "N" -> 78 [] c = "Y" -> 89 [] c = "y" -> 121
      [] c = "b" -> 98 [] c = "d" -> 100 [] c = "e" -> 101 [] c = "g" -> 103
      [] c = "l" -> 108 [] c = "n" -> 110 [] c = "r" -> 114 [] c = "u" -> 117

\* Python's a < b on two str values: the first differing code point decides,
\* and a proper prefix is the smaller
RECURSIVE TextLess(_, _)
TextLess(a, b) ==
    IF b = <<>> THEN FALSE
    ELSE IF a = <<>> THEN TRUE
    ELSE IF a[1] # b[1] THEN CodePoint(a[1]) < CodePoint(b[1])
    ELSE TextLess(Tail(a), Tail(b))

\* Python's a == b where b is a str: equal texts, and nothing else
PyEq(a, b) == a.t = "str" /\ b.t = "str" /\ a.s = b.s

Y == PyStr(<<"Y">>)

N == PyStr(<<"N">>)

\* what a cell of the Accessible column can hold: Y, N, an empty or
\* lower-case text, or a missing value
AccessibleValues == {Y, N, PyStr(<<>>), PyStr(<<"y">>), PyNaN}

\* the conditional tests for N instead of Y
AccessibleEnc_NotN(val) == IF PyEq(val, N) THEN PyInt(0) ELSE PyInt(1)

\* lambda val: 1 if val == "Y" else 0
AccessibleEnc(val) == IF PyEq(val, Y) THEN PyInt(1) ELSE PyInt(0)

\* Series.apply(lambda val: ...): the encoding of every value, row by row
ApplyAccessibleEnc(column) ==
    Column("int64",
           [r \in 1..Len(column.values) |-> AccessibleEnc(column.values[r])])

\* the classes are numbered from 1
LabelEncoderTransform_OneBased(classes, v) ==
    PyInt(CHOOSE k \in 1..Len(classes) : classes[k] = v)

\* LabelEncoder.transform of one value: its position in classes_, from 0
LabelEncoderTransform(classes, v) ==
    PyInt((CHOOSE k \in 1..Len(classes) : classes[k] = v) - 1)

\* LabelEncoder.fit: classes_ is the sorted sequence of the distinct values;
\* a column that mixes texts with a missing value cannot be sorted and
\* fit raises TypeError
LabelEncoderFitRaises(values) ==
    \E r \in 1..Len(values) : values[r].t # "str"

LabelEncoderFit(values) ==
    LET distinct == {values[r] : r \in 1..Len(values)}
    IN  SortSeq(CHOOSE q \in [1..Cardinality(distinct) -> distinct] :
                    \A v \in distinct : \E k \in DOMAIN q : q[k] = v,
                LAMBDA a, b : TextLess(a.s, b.s))

(* -------------- specification: the binary encoding cells ---------------- *)

InitEncode ==
    /\ DummiesUnassigned /\ SelectionUnassigned /\ ScalingUnassigned
    /\ length = PyNone
    /\ result = Outcome(PyNone, FALSE, <<>>)
    /\ \E k \in 1..MaxRows : \E acc \in [1..k -> AccessibleValues] :
           hiking = DataFrame(<<"Accessible">>,
                              [c \in {"Accessible"} |-> Column("object", acc)])
    /\ le = <<>>
    /\ running_times_5k = Unassigned
    /\ pc = "cell10"

\* hiking["Accessible_enc"] = hiking["Accessible"].apply(lambda val: ...)
AccessibleEncCell ==
    /\ pc = "cell10"
    /\ hiking' = SetColumn(hiking, "Accessible_enc",
                           ApplyAccessibleEnc(hiking.data["Accessible"]))
    /\ pc' = "cell11"
    /\ UNCHANGED <<length, result, le, running_times_5k>>
    /\ UNCHANGED <<dummies_vars, selection_vars, scaling_vars>>

\* le = LabelEncoder()
\* hiking["Accessible_enc_le"] = le.fit_transform(hiking["Accessible"])
LabelEncoderCell ==
    /\ pc = "cell11"
    /\ ~LabelEncoderFitRaises(hiking.data["Accessible"].values)
    /\ LET classes == LabelEncoderFit(hiking.data["Accessible"].values)
       IN  /\ le' = classes
           /\ hiking' = SetColumn(hiking, "Accessible_enc_le",
                  Column("int64",
                         [r \in 1..NRows(hiking) |->
                             LabelEncoderTransform(classes,
                                 hiking.data["Accessible"].values[r])]))
    /\ pc' = "encoded"
    /\ UNCHANGED <<length, result, running_times_5k>>
    /\ UNCHANGED <<dummies_vars, selection_vars, scaling_vars>>

\* the same cell on a column fit cannot sort: the cell stops with TypeError
\* and assigns nothing
LabelEncoderCellRaises ==
    /\ pc = "cell11"
    /\ LabelEncoderFitRaises(hiking.data["Accessible"].values)
    /\ pc' = "TypeError"
    /\ UNCHANGED <<length, result, hiking, le, running_times_5k>>
    /\ UNCHANGED <<dummies_vars, selection_vars, scaling_vars>>

NextEncode == AccessibleEncCell \/ LabelEncoderCell \/ LabelEncoderCellRaises

SpecEncode == InitEncode /\ [][NextEncode]_vars

(* --------------------- claims on the binary encodings ------------------- *)

AccessibleAt(r) == hiking.data["Accessible"].values[r]

OnlyYN == \A r \in 1..NRows(hiking) : AccessibleAt(r) \in {Y, N}

SameEncoding ==
    /\ hiking.data["Accessible_enc"] = hiking.data["Accessible_enc_le"]
    /\ \A r \in 1..NRows(hiking) :
          /\ AccessibleAt(r) = Y
                => hiking.data["Accessible_enc_le"].values[r] = PyInt(1)
          /\ AccessibleAt(r) = N
                => hiking.data["Accessible_enc_le"].values[r] = PyInt(0)

\* C9 as stated: for every Accessible column whose values are all Y or N the
\* pandas encoding and LabelEncoder give the same column, Y as 1 and N as 0
C9_SameEncodingAllYN ==
    (pc = "encoded" /\ OnlyYN) => SameEncoding

\* C9 amended: for every Accessible column whose values are all Y or N and
\* that holds at least one N, the pandas encoding and LabelEncoder give the
\* same column, Y as 1 and N as 0
C9_SameEncodingWithN ==
    (pc = "encoded" /\ OnlyYN
        /\ \E r \in 1..NRows(hiking) : AccessibleAt(r) = N)
        => SameEncoding

C9_Witness ==
    /\ pc = "encoded"
    /\ OnlyYN
    /\ \E r \in 1..NRows(hiking) : AccessibleAt(r) = N
    /\ \E r \in 1..NRows(hiking) :
          /\ AccessibleAt(r) = Y
          /\ hiking.data["Accessible_enc"].values[r] = PyInt(1)
          /\ hiking.data["Accessible_enc_le"].values[r] = PyInt(1)

\* C10: Accessible_enc is 1 exactly in the rows whose Accessible value is Y
\* and 0 in every other row, an N row and a missing or other value alike
C10_EncOneIffY ==
    (pc # "cell10")
        => /\ Len(hiking.data["Accessible_enc"].values) = NRows(hiking)
           /\ \A r \in 1..NRows(hiking) :
                 /\ hiking.data["Accessible_enc"].values[r]
                        \in {PyInt(0), PyInt(1)}
                 /\ hiking.data["Accessible_enc"].values[r] = PyInt(1)
                        <=> (AccessibleAt(r).t = "str"
                               /\ AccessibleAt(r).s = <<"Y">>)

C10_Witness ==
    /\ pc # "cell10"
    /\ \E r \in 1..NRows(hiking) :
          AccessibleAt(r) = Y
             /\ hiking.data["Accessible_enc"].values[r] = PyInt(1)
    /\ \E r \in 1..NRows(hiking) :
          AccessibleAt(r) = N
             /\ hiking.data["Accessible_enc"].values[r] = PyInt(0)
    /\ \E r \in 1..NRows(hiking) :
          AccessibleAt(r) = PyNaN
             /\ hiking.data["Accessible_enc"].values[r] = PyInt(0)

(* ------------------------- aggregate statistics ------------------------- *)

\* A float64 cell of running_times_5k is an integer, the number of hundredths
\* of a minute; a run time is a whole number of tenths, as in running_dict,
\* so that every mean and median below is a whole number of hundredths.

RunLabels == <<"run1", "run2", "run3", "run4", "run5">>

\* running_dict: the six runners of the notebook
NotebookNames == <<"Sue", "Mark", "Sean", "Erin", "Jenny", "Russell">>

NotebookRuns ==
    [c \in {"run1", "run2", "run3", "run4", "run5"} |->
        CASE c = "run1" -> <<2010, 1650, 2350, 2170, 2580, 3090>>
          [] c = "run2" -> <<1850, 1710, 2510, 2110, 2710, 2960>>
          [] c = "run3" -> <<1960, 1690, 2520, 2090, 2610, 3140>>
          [] c = "run4" -> <<2030, 1760, 2460, 2210, 2670, 3040>>
          [] c = "run5" -> <<1830, 1730, 2390, 2220, 2690, 2990>>]

\* pd.DataFrame(running_dict): the name column of texts, then the five runs
RunningFrame(names, runs) ==
    DataFrame(<<"name">> \o RunLabels,
              [c \in {"name", "run1", "run2", "run3", "run4", "run5"} |->
                  IF c = "name" THEN Column("object", names)
                  ELSE Column("float64", runs[c])])

\* the run times an enumerated frame draws from: the positive times of up to
\* MaxTime tenths
RunTimes == {10 * k : k \in 1..MaxTime}

IsNumeric(dtype) == dtype \in {"int64", "float64"}

\* the labels of the numeric columns, in column order: a reduction along
\* axis=1 leaves the columns of texts out
NumericLabels(df) ==
    SelectSeq(df.columns, LAMBDA c : IsNumeric(df.data[c].dtype))

\* the values of row r in the numeric columns
RowValues(df, r) ==
    LET nl == NumericLabels(df)
    IN  [k \in 1..Len(nl) |-> df.data[nl[k]].values[r]]

RECURSIVE SeqSum(_)
SeqSum(vals) == IF vals = <<>> THEN 0 ELSE Head(vals) + SeqSum(Tail(vals))

\* the largest value is taken
SeqMin_Max(vals) ==
    CHOOSE m \in {vals[k] : k \in DOMAIN vals} :
        \A k \in DOMAIN vals : m >= vals[k]

SeqMin(vals) ==
    CHOOSE m \in {vals[k] : k \in DOMAIN vals} :
        \A k \in DOMAIN vals : m <= vals[k]

\* the sum is divided by the number of all columns, name included
SeqMean_CountsName(vals) == SeqSum(vals) \div (Len(vals) + 1)

SeqMean(vals) == SeqSum(vals) \div Len(vals)

\* the middle value of the sorted values, the mean of the two middle values
\* when their number is even
SeqMedian(vals) ==
    LET sorted == SortSeq(vals, LAMBDA a, b : a < b)
        h      == Len(vals) \div 2
    IN  IF Len(vals) % 2 = 1 THEN sorted[h + 1]
        ELSE (sorted[h] + sorted[h + 1]) \div 2

\* df.mean(axis=1), df.median(axis=1), df.sum(axis=1), df.min(axis=1): one
\* value per row, over the numeric columns the frame has at that moment
MeanAxis1(df) ==
    Column("float64", [r \in 1..NRows(df) |-> SeqMean(RowValues(df, r))])

MedianAxis1(df) ==
    Column("float64", [r \in 1..NRows(df) |-> SeqMedian(RowValues(df, r))])

SumAxis1(df) ==
    Column("float64", [r \in 1..NRows(df) |-> SeqSum(RowValues(df, r))])

MinAxis1(df) ==
    Column("float64", [r \in 1..NRows(df) |-> SeqMin(RowValues(df, r))])

(* -------------- specification: the aggregate-statistics cells ----------- *)

InitRunning ==
    /\ DummiesUnassigned /\ SelectionUnassigned /\ ScalingUnassigned
    /\ length = PyNone
    /\ result = Outcome(PyNone, FALSE, <<>>)
    /\ hiking = Unassigned
    /\ le = <<>>
    /\ \/ running_times_5k = RunningFrame(NotebookNames, NotebookRuns)
       \/ \E k \in 1..MaxRunners :
          \E runs \in [{"run1", "run2", "run3", "run4", "run5"} ->
                          [1..k -> RunTimes]] :
              running_times_5k = RunningFrame(SubSeq(NotebookNames, 1, k), runs)
    /\ pc = "cell19"

\* running_times_5k["mean"] = running_times_5k.mean(axis=1)
MeanCell ==
    /\ pc = "cell19"
    /\ running_times_5k' =
           SetColumn(running_times_5k, "mean",
                     MeanAxis1(running_times_5k))
    /\ pc' = "cell20"
    /\ UNCHANGED <<length, result, hiking, le>>
    /\ UNCHANGED <<dummies_vars, selection_vars, scaling_vars>>

\* running_times_5k["median"] = running_times_5k.median(axis=1)
\* running_times_5k["total"] = running_times_5k.sum(axis=1)
\* running_times_5k["fastest_time"] = running_times_5k.min(axis=1)
\* Each statement reduces the frame the statement before it left.
AggregateCell ==
    /\ pc = "cell20"
    /\ LET df1 == SetColumn(running_times_5k, "median",
                            MedianAxis1(running_times_5k))
           df2 == SetColumn(df1, "total", SumAxis1(df1))
           df3 == SetColumn(df2, "fastest_time", MinAxis1(df2))
       IN  running_times_5k' = df3
    /\ pc' = "cell21"
    /\ UNCHANGED <<length, result, hiking, le>>
    /\ UNCHANGED <<dummies_vars, selection_vars, scaling_vars>>

\* running_times_5k[["mean", "median", "total", "fastest_time"]]: the four
\* columns are displayed, the frame stays as it is
ShowCell ==
    /\ pc = "cell21"
    /\ pc' = "shown"
    /\ UNCHANGED <<length, result, hiking, le, running_times_5k>>
    /\ UNCHANGED <<dummies_vars, selection_vars, scaling_vars>>

NextRunning == MeanCell \/ AggregateCell \/ ShowCell

SpecRunning == InitRunning /\ [][NextRunning]_vars

(* -------------------- claims on the aggregate columns ------------------- *)

Cell(label, r) == running_times_5k.data[label].values[r]

Runners == 1..NRows(running_times_5k)

\* the aggregate cell has been executed
Aggregated == pc \in {"cell21", "shown"}

\* the five run times of runner r
RunsOf(r) == [k \in 1..5 |-> Cell(RunLabels[k], r)]

SumOfRuns(r) ==
    Cell("run1", r) + Cell("run2", r) + Cell("run3", r) + Cell("run4", r)
        + Cell("run5", r)

AllRunsPositive == \A r \in Runners : \A k \in 1..5 : RunsOf(r)[k] > 0

\* m is the median of five values: one of them, with at most two values
\* below it and at most two above it
IsMedianOfFive(m, vals) ==
    /\ \E k \in 1..5 : vals[k] = m
    /\ Cardinality({k \in 1..5 : vals[k] < m}) <= 2
    /\ Cardinality({k \in 1..5 : vals[k] > m}) <= 2

\* C5: after the aggregate cells, total is for every runner the sum of the
\* runner's five run times
C5_TotalIsSumOfRuns ==
    Aggregated => \A r \in Runners : Cell("total", r) = SumOfRuns(r)

\* C6: after the aggregate cells, median is for every runner the median of
\* the runner's five run times
C6_MedianIsMedianOfRuns ==
    Aggregated
        => \A r \in Runners : IsMedianOfFive(Cell("median", r), RunsOf(r))

\* C7: after the aggregate cells, fastest_time is for every runner the least
\* of the runner's five run times, for every table of positive run times
C7_FastestIsMinOfRuns ==
    (Aggregated /\ AllRunsPositive)
        => \A r \in Runners :
              /\ \E k \in 1..5 : RunsOf(r)[k] = Cell("fastest_time", r)
              /\ \A k \in 1..5 : Cell("fastest_time", r) <= RunsOf(r)[k]

C7_Witness ==
    /\ Aggregated
    /\ AllRunsPositive
    /\ NRows(running_times_5k) = 6
    /\ running_times_5k.data["fastest_time"].values
          = <<1830, 1650, 2350, 2090, 2580, 2960>>

\* C8: the mean column is for every runner the arithmetic mean of the
\* runner's five run times; the name column takes no part in it
C8_MeanIsMeanOfRuns ==
    (pc # "cell19")
        => \A r \in Runners : 5 * Cell("mean", r) = SumOfRuns(r)

C8_Witness ==
    /\ pc = "cell20"
    /\ NRows(running_times_5k) = 6
    /\ running_times_5k.data["mean"].values
          = <<1936, 1708, 2446, 2160, 2652, 3044>>

(* --------------------------- one-hot encoding --------------------------- *)

blue == PyStr(<<"b", "l", "u", "e">>)

green == PyStr(<<"g", "r", "e", "e", "n">>)

red == PyStr(<<"r", "e", "d">>)

\* what a row of the encoded column can hold: a colour or a missing value
ColorValues == {blue, green, red, PyNaN}

\* pd.Series(["blue", "red", "green", "red"])
NotebookColors == <<blue, red, green, red>>

\* pandas' isna
IsNA(v) == v.t \in {"nan", "NoneType"}

\* the categories are listed in the order in which they first appear
Categories_Appearance(values) ==
    LET RECURSIVE Seen(_)
        Seen(k) ==
            IF k = 0 THEN <<>>
            ELSE LET before == Seen(k - 1)
                 IN  IF IsNA(values[k])
                        \/ \E j \in 1..Len(before) : before[j] = values[k]
                     THEN before
                     ELSE Append(before, values[k])
    IN  Seen(Len(values))

\* the categories get_dummies encodes: the distinct values that are not
\* missing (dummy_na=False), sorted
Categories(values) ==
    LET distinct == {values[r] : r \in 1..Len(values)} \ {PyNaN, PyNone}
    IN  SortSeq(CHOOSE q \in [1..Cardinality(distinct) -> distinct] :
                    \A v \in distinct : \E k \in DOMAIN q : q[k] = v,
                LAMBDA a, b : TextLess(a.s, b.s))

\* an ordinal code: 1 for the category of the row and every one before it
DummyEntry_UpTo(v, category) ==
    IF ~IsNA(v) /\ (v = category \/ TextLess(category.s, v.s))
    THEN PyInt(1) ELSE PyInt(0)

\* the entry of one row in the column of one category
DummyEntry(v, category) == IF v = category THEN PyInt(1) ELSE PyInt(0)

\* pd.get_dummies(series): one indicator column per category, labelled by
\* the category; a row holding a missing value is 0 in all of them
GetDummies(series) ==
    LET cats == Categories(series.values)
    IN  DataFrame(cats,
                  [c \in {cats[k] : k \in 1..Len(cats)} |->
                      Column("uint8",
                             [r \in 1..Len(series.values) |->
                                 DummyEntry(series.values[r], c)])])

(* ---------------- specification: the one-hot encoding cells ------------- *)

InitDummies ==
    /\ SelectionUnassigned /\ ScalingUnassigned
    /\ length = PyNone
    /\ result = Outcome(PyNone, FALSE, <<>>)
    /\ hiking = Unassigned
    /\ le = <<>>
    /\ running_times_5k = Unassigned
    /\ \/ color_ex = Column("object", NotebookColors)
       \/ \E k \in 1..MaxRows : \E vals \in [1..k -> ColorValues] :
              color_ex = Column("object", vals)
    /\ color_enc = Unassigned
    /\ pc = "cell13"

\* color_enc = pd.get_dummies(color_ex)
GetDummiesCell ==
    /\ pc = "cell13"
    /\ color_enc' = GetDummies(color_ex)
    /\ pc' = "cell14"
    /\ UNCHANGED <<color_ex, engineering_vars, selection_vars, scaling_vars>>

\* pd.concat([color_ex, color_enc], axis=1): the two are displayed side by
\* side, no name is assigned
ConcatCell ==
    /\ pc = "cell14"
    /\ pc' = "concatenated"
    /\ UNCHANGED <<dummies_vars, engineering_vars, selection_vars,
                   scaling_vars>>

NextDummies == GetDummiesCell \/ ConcatCell

SpecDummies == InitDummies /\ [][NextDummies]_vars

(* ------------------------ claims on get_dummies ------------------------- *)

Encoded == pc \in {"cell14", "concatenated"}

ColorRows == 1..Len(color_ex.values)

DummyLabels == {color_enc.columns[k] : k \in 1..Len(color_enc.columns)}

\* C11: for every row and every generated column c the entry is 1 exactly
\* when the value of the row in the original column is c, and 0 otherwise
C11_OneIffValueIsColumn ==
    Encoded
        => \A c \in DummyLabels :
              /\ Len(color_enc.data[c].values) = Len(color_ex.values)
              /\ \A r \in ColorRows :
                    /\ color_enc.data[c].values[r] \in {PyInt(0), PyInt(1)}
                    /\ color_enc.data[c].values[r] = PyInt(1)
                          <=> (color_ex.values[r].t = "str"
                                 /\ color_ex.values[r].s = c.s)

C11_Witness ==
    /\ Encoded
    /\ color_ex.values = NotebookColors
    /\ color_enc.data[blue].values = <<PyInt(1), PyInt(0), PyInt(0), PyInt(0)>>
    /\ color_enc.data[green].values = <<PyInt(0), PyInt(0), PyInt(1), PyInt(0)>>
    /\ color_enc.data[red].values = <<PyInt(0), PyInt(1), PyInt(0), PyInt(1)>>

\* the labels are in strictly increasing text order, so none occurs twice
LabelsSorted ==
    \A j, k \in 1..Len(color_enc.columns) :
        j < k => TextLess(color_enc.columns[j].s, color_enc.columns[k].s)

\* C12 as stated: exactly one column per distinct value of the encoded
\* column, in sorted order of the values, whatever the order of the rows
C12_ColumnPerDistinctValue ==
    Encoded
        => /\ DummyLabels = {color_ex.values[r] : r \in ColorRows}
           /\ DOMAIN color_enc.data = DummyLabels
           /\ LabelsSorted

\* C12 amended: exactly one column per distinct value that is not missing,
\* in sorted order of the values, whatever the order of the rows; a missing
\* value gets no column
C12_ColumnPerDistinctPresentValue ==
    Encoded
        => /\ DummyLabels
                 = {color_ex.values[r] : r \in ColorRows} \ {PyNaN}
           /\ DOMAIN color_enc.data = DummyLabels
           /\ LabelsSorted
           /\ (color_ex.values = NotebookColors
                 => color_enc.columns = <<blue, green, red>>)

C12_Witness ==
    /\ Encoded
    /\ color_ex.values = <<red, PyNaN, blue>>
    /\ color_enc.columns = <<blue, red>>

(* --------------------------- feature selection ------------------------- *)

\* volunteer.columns
VolunteerColumns ==
    <<"opportunity_id", "content_id", "vol_requests", "event_time", "title",
      "hits", "summary", "is_priority", "category_id", "category_desc",
      "amsl", "amsl_unit", "org_title", "org_content_id", "addresses_count",
      "locality", "region", "postalcode", "primary_loc", "display_url",
      "recurrence_type", "hours", "created_date", "last_modified_date",
      "start_date_date", "end_date_date", "status", "Latitude", "Longitude",
      "Community Board", "Community Council ", "Census Tract", "BIN", "BBL",
      "NTA">>

\* the columns of wine, as wine.head() prints them
WineColumns ==
    <<"Type", "Alcohol", "Malic acid", "Ash", "Alcalinity of ash",
      "Magnesium", "Total phenols", "Flavanoids", "Nonflavanoid phenols",
      "Proanthocyanins", "Color intensity", "Hue",
      "OD280/OD315 of diluted wines", "Proline">>

\* the rows of volunteer.csv and of wine_types.csv
NotebookVolunteerRows == 665

NotebookWineRows == 178

LabelSet(labels) == {labels[k] : k \in 1..Len(labels)}

PositionOf(labels, c) == CHOOSE k \in 1..Len(labels) : labels[k] = c

\* The cells of a file that was read are told apart by where they stand: the
\* cell of row r in the column at position k holds the number 1000 * k + r.
\* No modelled cell computes with these values, only moves them.
CellValue(k, r) == 1000 * k + r

\* pd.read_csv(dir_string + "volunteer.csv"), for a file of n rows
VolunteerFrame(n) ==
    DataFrame(VolunteerColumns,
              [c \in LabelSet(VolunteerColumns) |->
                  Column("object",
                         [r \in 1..n |->
                             CellValue(PositionOf(VolunteerColumns, c), r)])])

\* the Type of a wine is 1, 2 or 3; enumerated files cycle through the three
\* labels, starting from any of them
TypeLabel(r, first) == ((r + first) % 3) + 1

\* pd.read_csv(dir_string + "wine_types.csv"), for a file of n rows
WineFrame(n, first) ==
    DataFrame(WineColumns,
              [c \in LabelSet(WineColumns) |->
                  IF c = "Type"
                  THEN Column("int64", [r \in 1..n |-> TypeLabel(r, first)])
                  ELSE Column("float64",
                              [r \in 1..n |->
                                  CellValue(PositionOf(WineColumns, c), r)])])

\* the listed columns are the ones that are kept
Drop_KeepsListed(df, labels) ==
    DataFrame(SelectSeq(df.columns, LAMBDA c : c \in labels),
              [c \in (DOMAIN df.data) \cap labels |-> df.data[c]])

\* df.drop(labels, axis=1): a new frame without the listed columns, the
\* others in their order and with all their rows; df itself is not touched
Drop(df, labels) ==
    DataFrame(SelectSeq(df.columns, LAMBDA c : c \notin labels),
              [c \in (DOMAIN df.data) \ labels |-> df.data[c]])

\* as many components as features, whatever the number of rows
PCANComponents_Features(n_samples, n_features) == n_features

\* PCA() with n_components=None keeps min(n_samples, n_features) components
PCANComponents(n_samples, n_features) ==
    IF n_samples < n_features THEN n_samples ELSE n_features

\* pca.fit_transform(X): the fitted estimator and the transformed array.
\* The components are real numbers the model does not compute; it keeps the
\* shape of the array and the length of explained_variance_ratio_.
PCAFit(X) ==
    LET k == PCANComponents(NRows(X), Len(X.columns))
    IN  [n_features_ |-> Len(X.columns),
         n_samples_ |-> NRows(X),
         n_components_ |-> k,
         explained_variance_ratio_len |-> k]

PCATransformShape(X) ==
    [shape |-> <<NRows(X), PCANComponents(NRows(X), Len(X.columns))>>]

(* ------------- specification: the feature-selection notebook ------------ *)

InitSelection ==
    /\ DummiesUnassigned /\ ScalingUnassigned
    /\ length = PyNone
    /\ result = Outcome(PyNone, FALSE, <<>>)
    /\ hiking = Unassigned
    /\ le = <<>>
    /\ running_times_5k = Unassigned
    /\ \E n \in (1..MaxRows) \cup {NotebookVolunteerRows} :
           volunteer = VolunteerFrame(n)
    /\ \E n \in (1..MaxWineRows) \cup {NotebookWineRows} :
       \E first \in 0..2 :
           wine = WineFrame(n, first)
    /\ volunteer_subset = Unassigned
    /\ wine_X = Unassigned
    /\ pca = Unassigned
    /\ transformed_X = Unassigned
    /\ y = Unassigned
    /\ pc = "volunteer_subset"

\* volunteer_subset = volunteer.drop(["Latitude", "Longitude", "locality",
\*                                    "postalcode"], axis=1)
VolunteerSubsetCell ==
    /\ pc = "volunteer_subset"
    /\ volunteer_subset' =
           Drop(volunteer, {"Latitude", "Longitude", "locality", "postalcode"})
    /\ pc' = "wine_X"
    /\ UNCHANGED <<volunteer, wine, wine_X, pca, transformed_X, y>>
    /\ UNCHANGED <<engineering_vars, dummies_vars, scaling_vars>>

\* the drop is done in place: wine loses the column as well
WineXCell_InPlace ==
    /\ pc = "wine_X"
    /\ wine_X' = Drop(wine, {"Type"})
    /\ wine' = Drop(wine, {"Type"})
    /\ pc' = "pca"
    /\ UNCHANGED <<volunteer, volunteer_subset, pca, transformed_X, y>>
    /\ UNCHANGED <<engineering_vars, dummies_vars, scaling_vars>>

\* wine_X = wine.drop("Type", axis=1)
WineXCell ==
    /\ pc = "wine_X"
    /\ wine_X' = Drop(wine, {"Type"})
    /\ pc' = "pca"
    /\ UNCHANGED <<volunteer, volunteer_subset, wine, pca, transformed_X, y>>
    /\ UNCHANGED <<engineering_vars, dummies_vars, scaling_vars>>

\* pca = PCA()
\* transformed_X = pca.fit_transform(wine_X)
PCACell ==
    /\ pc = "pca"
    /\ pca' = PCAFit(wine_X)
    /\ transformed_X' = PCATransformShape(wine_X)
    /\ pc' = "y"
    /\ UNCHANGED <<volunteer, volunteer_subset, wine, wine_X, y>>
    /\ UNCHANGED <<engineering_vars, dummies_vars, scaling_vars>>

\* y = wine["Type"]
\* The train_test_split calls that follow assign names no modelled cell
\* reads, from a random partition of the rows.
LabelsCell ==
    /\ pc = "y"
    /\ y' = wine.data["Type"]
    /\ pc' = "split"
    /\ UNCHANGED <<volunteer, volunteer_subset, wine, wine_X, pca,
                   transformed_X>>
    /\ UNCHANGED <<engineering_vars, dummies_vars, scaling_vars>>

NextSelection == VolunteerSubsetCell \/ WineXCell \/ PCACell \/ LabelsCell

SpecSelection == InitSelection /\ [][NextSelection]_vars

(* -------------------- claims on the feature selection ------------------- *)

\* the columns print(volunteer_subset.columns) shows
KeptVolunteerColumns ==
    <<"opportunity_id", "content_id", "vol_requests", "event_time", "title",
      "hits", "summary", "is_priority", "category_id", "category_desc",
      "amsl", "amsl_unit", "org_title", "org_content_id", "addresses_count",
      "region", "primary_loc", "display_url", "recurrence_type", "hours",
      "created_date", "last_modified_date", "start_date_date",
      "end_date_date", "status", "Community Board", "Community Council ",
      "Census Tract", "BIN", "BBL", "NTA">>

\* C13: the drop returns a frame with exactly the other 31 of the 35 columns
\* in their original relative order (region is kept) and with every row
\* kept, and it leaves the volunteer frame itself unchanged
C13_DropKeepsOtherColumns ==
    /\ volunteer = VolunteerFrame(NRows(volunteer))
    /\ Len(volunteer.columns) = 35
    /\ (pc # "volunteer_subset")
          => /\ volunteer_subset.columns = KeptVolunteerColumns
             /\ Len(volunteer_subset.columns) = 31
             /\ \E k \in 1..31 : volunteer_subset.columns[k] = "region"
             /\ DOMAIN volunteer_subset.data = LabelSet(KeptVolunteerColumns)
             /\ \A c \in LabelSet(KeptVolunteerColumns) :
                    /\ volunteer_subset.data[c] = volunteer.data[c]
                    /\ Len(volunteer_subset.data[c].values) = NRows(volunteer)

C13_Witness ==
    /\ pc # "volunteer_subset"
    /\ NRows(volunteer) = NotebookVolunteerRows
    /\ NRows(volunteer_subset) = NotebookVolunteerRows
    /\ Len(volunteer_subset.columns) = 31
    /\ "Latitude" \notin DOMAIN volunteer_subset.data
    /\ "Latitude" \in DOMAIN volunteer.data

\* C14: wine_X holds every column of wine except the label column Type (13
\* feature columns), wine keeps its Type column, and y = wine["Type"] taken
\* afterwards has exactly one label for every row of wine_X and of
\* transformed_X
C14_WineXAndLabels ==
    /\ \E first \in 0..2 : wine = WineFrame(NRows(wine), first)
    /\ (pc \in {"pca", "y", "split"})
          => /\ wine_X.columns = Tail(WineColumns)
             /\ Len(wine_X.columns) = 13
             /\ DOMAIN wine_X.data = LabelSet(WineColumns) \ {"Type"}
             /\ \A c \in DOMAIN wine_X.data : wine_X.data[c] = wine.data[c]
             /\ "Type" \in DOMAIN wine.data
    /\ (pc = "split")
          => /\ Len(y.values) = NRows(wine_X)
             /\ Len(y.values) = transformed_X.shape[1]
             /\ \A r \in 1..NRows(wine_X) :
                    y.values[r] = wine.data["Type"].values[r]

C14_Witness ==
    /\ pc = "split"
    /\ NRows(wine) = NotebookWineRows
    /\ Len(wine_X.columns) = 13
    /\ Len(y.values) = NotebookWineRows
    /\ transformed_X.shape[1] = NotebookWineRows

Abs(x) == IF x < 0 THEN -x ELSE x

RECURSIVE GCD(_, _)
GCD(a, b) == IF b = 0 THEN a ELSE GCD(b, a % b)

Rat(num, den) ==
    LET g == GCD(Abs(num), den)
    IN  [num |-> num \div g, den |-> den \div g]

RatMul(a, b) == Rat(a.num * b.num, a.den * b.den)

RatSub(a, b) == Rat(a.num * b.den - b.num * a.den, a.den * b.den)

Real(coef, unit2) == [coef |-> coef, unit2 |-> unit2]

ScaleColumns == <<"col1", "col2", "col3">>

\* scale_dict, in hundredths
NotebookScale ==
    [c \in {"col1", "col2", "col3"} |->
        CASE c = "col1" -> <<100, 120, 75, 160>>
          [] c = "col2" -> <<4800, 4550, 4620, 5000>>
          [] c = "col3" -> <<10000, 10130, 10350, 10410>>]

\* pd.DataFrame(scale_dict)
ScaleFrame(cols) ==
    DataFrame(ScaleColumns,
              [c \in {"col1", "col2", "col3"} |-> Column("float64", cols[c])])

\* n * x[i] - sum(x): n times the distance of x[i] from the mean
Centered(x) == [i \in 1..Len(x) |-> Len(x) * x[i] - SeqSum(x)]

SumOfSquares(ds) == SeqSum([i \in 1..Len(ds) |-> ds[i] * ds[i]])

\* StandardScaler.fit: mean_ = sum(x) / n
ScalerMean(x) == Rat(SeqSum(x), Len(x))

\* the variance is taken with n - 1 in the denominator
ScalerVar_Sample(x) ==
    IF Len(x) = 1 THEN Rat(0, 1)
    ELSE Rat(SumOfSquares(Centered(x)), Len(x) * Len(x) * (Len(x) - 1))

\* StandardScaler.fit: var_ = sum((x - mean_)^2) / n
ScalerVar(x) == Rat(SumOfSquares(Centered(x)), Len(x) * Len(x) * Len(x))

\* the square of scale_: scale_ = sqrt(var_), and 1 where var_ is zero
ScalerScale2(x) ==
    IF ScalerVar(x).num = 0 THEN Rat(1, 1) ELSE ScalerVar(x)

\* StandardScaler.transform: (x[i] - mean_) / scale_, which is
\* Centered(x)[i] * sqrt(1 / (n^2 * scale_^2))
ScalerTransform(x) ==
    LET s2 == ScalerScale2(x)
        u  == Rat(s2.den, Len(x) * Len(x) * s2.num)
    IN  [i \in 1..Len(x) |-> Real(Centered(x)[i], u)]

\* the fitted attributes of the scaler, column by column
ScalerFit(df) ==
    [mean_  |-> [c \in DOMAIN df.data |-> ScalerMean(df.data[c].values)],
     var_   |-> [c \in DOMAIN df.data |-> ScalerVar(df.data[c].values)],
     scale2_ |-> [c \in DOMAIN df.data |-> ScalerScale2(df.data[c].values)]]

\* StandardScaler(): nothing is fitted yet
ScalerNew == [mean_ |-> <<>>, var_ |-> <<>>, scale2_ |-> <<>>]

(* -------------------- specification: the scaling cells ------------------ *)

InitScaling ==
    /\ DummiesUnassigned /\ SelectionUnassigned
    /\ length = PyNone
    /\ result = Outcome(PyNone, FALSE, <<>>)
    /\ hiking = Unassigned
    /\ le = <<>>
    /\ running_times_5k = Unassigned
    /\ \/ scale_df = ScaleFrame(NotebookScale)
       \/ \E n \in 1..MaxScaleRows :
          \E cols \in [{"col1", "col2", "col3"} ->
                          [1..n -> 1..MaxScaleValue]] :
              scale_df = ScaleFrame(cols)
    /\ scaler = Unassigned
    /\ df_scaled = Unassigned
    /\ pc = "cell6"

\* scaler = StandardScaler()
ScalerCell ==
    /\ pc = "cell6"
    /\ scaler' = ScalerNew
    /\ pc' = "cell7"
    /\ UNCHANGED <<scale_df, df_scaled>>
    /\ UNCHANGED <<engineering_vars, dummies_vars, selection_vars>>

\* df_scaled = pd.DataFrame(scaler.fit_transform(scale_df),
\*                          columns=scale_df.columns)
FitTransformCell ==
    /\ pc = "cell7"
    /\ scaler' = ScalerFit(scale_df)
    /\ df_scaled' =
           DataFrame(scale_df.columns,
                     [c \in DOMAIN scale_df.data |->
                         Column("float64",
                                ScalerTransform(scale_df.data[c].values))])
    /\ pc' = "cell8"
    /\ UNCHANGED scale_df
    /\ UNCHANGED <<engineering_vars, dummies_vars, selection_vars>>

\* print(df_scaled); print(df_scaled.var()): nothing is assigned
PrintScaledCell ==
    /\ pc = "cell8"
    /\ pc' = "printed"
    /\ UNCHANGED <<scaling_vars, engineering_vars, dummies_vars,
                   selection_vars>>

NextScaling == ScalerCell \/ FitTransformCell \/ PrintScaledCell

SpecScaling == InitScaling /\ [][NextScaling]_vars

(* --------------------------- claims on scaling -------------------------- *)

Scaled == pc \in {"cell8", "printed"}

ScaledLabels == DOMAIN df_scaled.data

Coefs(c) ==
    [i \in 1..NRows(df_scaled) |-> df_scaled.data[c].values[i].coef]

Unit2(c) == df_scaled.data[c].values[1].unit2

SharedUnit(c) ==
    \A i \in 1..NRows(df_scaled) :
        df_scaled.data[c].values[i].unit2 = Unit2(c)

\* the mean of a scaled column is sum(coef) / n * sqrt(unit2): it is zero
\* exactly when the coefficients sum to zero
MeanIsZero(c) == SharedUnit(c) /\ SeqSum(Coefs(c)) = 0

\* the variance of a scaled column, sum(z^2) / n - mean^2
Variance(c) ==
    LET n == NRows(df_scaled)
    IN  RatSub(RatMul(Unit2(c), Rat(SumOfSquares(Coefs(c)), n)),
               RatMul(Unit2(c),
                      Rat(SeqSum(Coefs(c)) * SeqSum(Coefs(c)), n * n)))

\* df_scaled.var() of pandas: the same sum of squares over n - 1
PrintedVariance(c) ==
    LET n == NRows(df_scaled)
    IN  RatMul(Variance(c), Rat(n, n - 1))

IsConstant(c) ==
    \A i \in 1..NRows(scale_df) :
        scale_df.data[c].values[i] = scale_df.data[c].values[1]

====
